---- MODULE Spec2Model ----
(***************************************************************************)
(* Lifecycle of the metrics registered by the Mesos hierarchical           *)
(* allocator: master/allocator/mesos/metrics.cpp.                          *)
(*                                                                         *)
(* Two classes register named metrics in the process-wide catalog          *)
(* (process::metrics::add / remove): Metrics (allocator-wide) and          *)
(* FrameworkMetrics (one per framework).  A behaviour constructs one       *)
(* registry object, drives it through its public operations and destroys   *)
(* it; a failed CHECK aborts the process.  The names of the two classes    *)
(* have different roots, so the objects do not interact through the        *)
(* catalog.                                                                *)
(*                                                                         *)
(* A metric name is the sequence of the pieces the code concatenates:      *)
(* string literals are one piece each, a role is the sequence of its       *)
(* characters.                                                             *)
(***************************************************************************)
EXTENDS Integers, Sequences, FiniteSets, TLC

VARIABLES
  registry,                        \* which object this process constructed
  phase,                           \* "live", "destroyed" (destructor ran), "aborted" (CHECK failed)
  catalog,                         \* process::metrics: name -> source of the value
  resources_total,                 \* Metrics::resources_total (vector)
  resources_offered_or_allocated,  \* Metrics::resources_offered_or_allocated (vector)
  quota_allocated,                 \* Metrics::quota_allocated: role -> resource name -> gauge
  quota_guarantee,                 \* Metrics::quota_guarantee: role -> resource name -> gauge
  offer_filters_active,            \* Metrics::offer_filters_active: role -> gauge
  roleDrfPositions,                \* FrameworkMetrics::roleDrfPositions: role -> DrfPositions
  suppressed,                      \* FrameworkMetrics::suppressed: role -> push gauge
  calls,                           \* history: catalog calls issued by the last operation
  lastOp,                          \* history: the last operation and its arguments
  currentQuota,                    \* history: role -> resource name -> value of the quota in force
  lastSuppressCall,                \* history: role -> last of reviveRole/suppressRole called for it
  mailbox,                         \* the allocator process: its queue of events not yet processed
  version,                         \* the allocator process: number of mutations it has processed
  alive,                           \* the allocator process: it has not terminated
  lastRead                         \* the resolution of the most recently resolved gauge read

allocVars == <<resources_total, resources_offered_or_allocated,
               quota_allocated, quota_guarantee, offer_filters_active>>
fwVars == <<roleDrfPositions, suppressed>>
histVars == <<calls, lastOp, currentQuota, lastSuppressCall>>
procVars == <<mailbox, version, alive, lastRead>>
vars == <<registry, phase, catalog, allocVars, fwVars, histVars, procVars>>

----------------------------------------------------------------------------
(* Bounds of the model. *)

\* quota values are 1..MaxValue
MaxValue == 2
\* DRF positions are 0..MaxPos
MaxPos == 1
\* the allocator's queue holds at most MaxQueue events
MaxQueue == 2
\* the allocator processes at most MaxVersion mutations
MaxVersion == 1

\* The roles addRole/removeRole are called with.
AllocRoles == { <<"a">>, <<"a", "/", "b">> }

\* The roles setQuota/removeQuota are called with.
QuotaRoles == { <<"a", "/", "b">> }

\* The roles the framework operations are called with; the last two differ
\* only in a character the normalizer replaces.
FwRoles == { <<"a">>, <<"a", "/", "b">>, <<"a", "_", "b">> }

\* The roles setDrfPositions is called with.
DrfRoles == { <<"a", "/", "b">>, <<"a", "_", "b">> }

\* Resource names a quota guarantee may mention.
QuotaResourceNames == { "cpus", "mem" }

\* Resource value types (mesos::Value::Type); a quota is expected to be SCALAR.
ValueTypes == { "SCALAR", "RANGES" }

----------------------------------------------------------------------------
(* hashmap helpers *)

EmptyMap == [k \in {} |-> 0]

Put(m, k, v) == [x \in (DOMAIN m) \cup {k} |-> IF x = k THEN v ELSE m[x]]

Erase(m, k) == [x \in (DOMAIN m) \ {k} |-> m[x]]

\* The values of a hashmap in some iteration order (the order is fixed here;
\* nothing below depends on which one it is).
RECURSIVE Values(_)
Values(m) ==
  IF DOMAIN m = {} THEN << >>
  ELSE LET k == CHOOSE x \in DOMAIN m : TRUE
       IN <<m[k]>> \o Values(Erase(m, k))

RECURSIVE Flatten(_)
Flatten(ss) == IF ss = << >> THEN << >> ELSE Head(ss) \o Flatten(Tail(ss))

Range(s) == { s[i] : i \in DOMAIN s }

----------------------------------------------------------------------------
(* The catalog: process::metrics::add / remove.  A call that the catalog   *)
(* rejects returns a failed future, which the callers in metrics.cpp drop. *)
(* A catalog run is the pair [cat, log] threaded through the calls of one  *)
(* operation.                                                              *)

add(st, gauge) ==
  IF gauge.name \in DOMAIN st.cat
  THEN [cat |-> st.cat,
        log |-> Append(st.log, [op |-> "add", name |-> gauge.name, ok |-> FALSE])]
  ELSE [cat |-> Put(st.cat, gauge.name, gauge.source),
        log |-> Append(st.log, [op |-> "add", name |-> gauge.name, ok |-> TRUE])]

remove(st, gauge) ==
  IF gauge.name \in DOMAIN st.cat
  THEN [cat |-> Erase(st.cat, gauge.name),
        log |-> Append(st.log, [op |-> "remove", name |-> gauge.name, ok |-> TRUE])]
  ELSE [cat |-> st.cat,
        log |-> Append(st.log, [op |-> "remove", name |-> gauge.name, ok |-> FALSE])]

RECURSIVE addAll(_, _)
addAll(st, gauges) ==
  IF gauges = << >> THEN st ELSE addAll(add(st, Head(gauges)), Tail(gauges))

RECURSIVE removeAll(_, _)
removeAll(st, gauges) ==
  IF gauges = << >> THEN st ELSE removeAll(remove(st, Head(gauges)), Tail(gauges))

Begin == [cat |-> catalog, log |-> << >>]

----------------------------------------------------------------------------
(* Metrics: names and gauges *)

\* A pull gauge bound to the allocator: reading it dispatches `method(args)`.
PullGauge(name, method, args) ==
  [name |-> name, source |-> [kind |-> "pull", method |-> method, args |-> args]]

\* The guarantee gauge: a pull gauge over a deferred lambda returning the
\* value captured at construction.
ConstGauge(name, value) ==
  [name |-> name, source |-> [kind |-> "const", value |-> value]]

\* Counter, Timer: the value is not modelled.
FixedMetric(name) == [name |-> name, source |-> [kind |-> "fixed"]]

event_queue_dispatches ==
  PullGauge(<<"allocator/mesos/event_queue_dispatches">>, "_event_queue_dispatches", << >>)
event_queue_dispatches_ ==
  PullGauge(<<"allocator/event_queue_dispatches">>, "_event_queue_dispatches", << >>)
allocation_runs == FixedMetric(<<"allocator/mesos/allocation_runs">>)
allocation_run == FixedMetric(<<"allocator/mesos/allocation_run">>)
allocation_run_latency == FixedMetric(<<"allocator/mesos/allocation_run_latency">>)

MetricsFixed ==
  <<event_queue_dispatches, event_queue_dispatches_, allocation_runs,
    allocation_run, allocation_run_latency>>

resources == <<"cpus", "mem", "disk">>

ResourceTotal(resource) ==
  PullGauge(<<"allocator/mesos/resources/", resource, "/total">>,
            "_resources_total", <<resource>>)

\* Mutant of ResourceOfferedOrAllocated: the gauge is bound to the query of
\* the total.
ResourceOfferedOrAllocated_readsTotal(resource) ==
  PullGauge(<<"allocator/mesos/resources/", resource, "/offered_or_allocated">>,
            "_resources_total", <<resource>>)

ResourceOfferedOrAllocated(resource) ==
  PullGauge(<<"allocator/mesos/resources/", resource, "/offered_or_allocated">>,
            "_resources_offered_or_allocated", <<resource>>)

QuotaGuaranteeName(role, resource) ==
  <<"allocator/mesos/quota", "/roles/">> \o role \o <<"/resources/", resource, "/guarantee">>

QuotaAllocatedName(role, resource) ==
  <<"allocator/mesos/quota", "/roles/">> \o role
    \o <<"/resources/", resource, "/offered_or_allocated">>

OfferFilterName(role) ==
  <<"allocator/mesos/offer_filters/roles/">> \o role \o <<"/active">>

----------------------------------------------------------------------------
(* History bookkeeping shared by the operations *)

Op(op, role, arg) == [op |-> op, role |-> role, arg |-> arg]

Record(op, role, arg) == lastOp' = Op(op, role, arg)

\* A failed CHECK on entry: the process aborts before the operation did anything.
CheckFailed ==
  /\ phase' = "aborted"
  /\ calls' = << >>
  /\ UNCHANGED <<procVars, registry, catalog, allocVars, fwVars, currentQuota, lastSuppressCall>>

----------------------------------------------------------------------------
(* Metrics::Metrics *)

MetricsConstructed ==
  LET totals == [i \in DOMAIN resources |-> ResourceTotal(resources[i])]
      offered == [i \in DOMAIN resources |-> ResourceOfferedOrAllocated(resources[i])]
      \* the loop adds total, then offered_or_allocated, of each resource in turn
      pairs == Flatten([i \in DOMAIN resources |-> <<totals[i], offered[i]>>])
      st == addAll(addAll([cat |-> EmptyMap, log |-> << >>], MetricsFixed), pairs)
  IN [cat |-> st.cat, log |-> st.log, totals |-> totals, offered |-> offered]

(* Metrics::~Metrics *)

DestroyMetricsRun(st) ==
  LET s1 == removeAll(st, MetricsFixed)
      s2 == removeAll(s1, resources_total)
      s3 == removeAll(s2, resources_offered_or_allocated)
      s4 == removeAll(s3, Flatten(Values([role \in DOMAIN quota_allocated |->
                                            Values(quota_allocated[role])])))
      s5 == removeAll(s4, Flatten(Values([role \in DOMAIN quota_guarantee |->
                                            Values(quota_guarantee[role])])))
  IN removeAll(s5, Values(offer_filters_active))

DestroyMetrics ==
  /\ registry = "allocator"
  /\ phase = "live"
  /\ LET st == DestroyMetricsRun(Begin)
     IN /\ catalog' = st.cat
        /\ calls' = st.log
  /\ phase' = "destroyed"
  /\ Record("~Metrics", << >>, << >>)
  /\ UNCHANGED <<procVars, registry, allocVars, fwVars, currentQuota, lastSuppressCall>>

(* Metrics::setQuota *)

\* The loop over quota.info.guarantee(), from entry i on.  acc carries the
\* catalog run, the two local hashmaps and whether CHECK_EQ failed.
RECURSIVE setQuotaLoop(_, _, _, _)
setQuotaLoop(acc, role, guarantee, i) ==
  IF i > Len(guarantee) \/ acc.aborted THEN acc
  ELSE
    LET resource == guarantee[i] IN
    IF resource.type # "SCALAR" THEN [acc EXCEPT !.aborted = TRUE]
    ELSE
      LET value == resource.value
          guaranteeGauge == ConstGauge(QuotaGuaranteeName(role, resource.name), value)
          offered_or_allocated ==
            PullGauge(QuotaAllocatedName(role, resource.name),
                      "_quota_allocated", <<role, resource.name>>)
      IN setQuotaLoop(
           [st |-> add(add(acc.st, guaranteeGauge), offered_or_allocated),
            allocated |-> Put(acc.allocated, resource.name, offered_or_allocated),
            guarantees |-> Put(acc.guarantees, resource.name, guaranteeGauge),
            aborted |-> FALSE],
           role, guarantee, i + 1)

\* What the caller asked for: resource name -> guaranteed value.
QuotaValues(guarantee) ==
  [n \in { guarantee[i].name : i \in DOMAIN guarantee } |->
     (CHOOSE e \in Range(guarantee) : e.name = n).value]

\* Mutant of setQuota: returns early when the guarantee lists no resource,
\* leaving no entry for the role.
setQuota_skipsEmpty(role, quota) ==
  /\ registry = "allocator"
  /\ phase = "live"
  /\ Record("setQuota", role, quota)
  /\ IF role \in DOMAIN quota_allocated
     THEN CheckFailed
     ELSE
       LET r == setQuotaLoop([st |-> Begin, allocated |-> EmptyMap,
                              guarantees |-> EmptyMap, aborted |-> FALSE],
                             role, quota, 1)
       IN /\ catalog' = r.st.cat
          /\ calls' = r.st.log
          /\ IF r.aborted
             THEN /\ phase' = "aborted"
                  /\ UNCHANGED <<quota_allocated, quota_guarantee, currentQuota>>
             ELSE /\ phase' = phase
                  /\ quota_allocated' =
                       IF quota = << >> THEN quota_allocated
                       ELSE Put(quota_allocated, role, r.allocated)
                  /\ quota_guarantee' =
                       IF quota = << >> THEN quota_guarantee
                       ELSE Put(quota_guarantee, role, r.guarantees)
                  /\ currentQuota' = Put(currentQuota, role, QuotaValues(quota))
          /\ UNCHANGED <<procVars, registry, resources_total, resources_offered_or_allocated,
                         offer_filters_active, fwVars, lastSuppressCall>>

setQuota(role, quota) ==
  /\ registry = "allocator"
  /\ phase = "live"
  /\ Record("setQuota", role, quota)
  /\ IF role \in DOMAIN quota_allocated
     THEN CheckFailed
     ELSE
       LET r == setQuotaLoop([st |-> Begin, allocated |-> EmptyMap,
                              guarantees |-> EmptyMap, aborted |-> FALSE],
                             role, quota, 1)
       IN /\ catalog' = r.st.cat
          /\ calls' = r.st.log
          /\ IF r.aborted
             THEN /\ phase' = "aborted"
                  /\ UNCHANGED <<quota_allocated, quota_guarantee, currentQuota>>
             ELSE /\ phase' = phase
                  /\ quota_allocated' = Put(quota_allocated, role, r.allocated)
                  /\ quota_guarantee' = Put(quota_guarantee, role, r.guarantees)
                  /\ currentQuota' = Put(currentQuota, role, QuotaValues(quota))
          /\ UNCHANGED <<procVars, registry, resources_total, resources_offered_or_allocated,
                         offer_filters_active, fwVars, lastSuppressCall>>

\* Mutant of removeQuota: clears the role's entry without unregistering its
\* offered_or_allocated gauges.
removeQuota_noUnregister(role) ==
  /\ registry = "allocator"
  /\ phase = "live"
  /\ Record("removeQuota", role, << >>)
  /\ IF role \notin DOMAIN quota_allocated
     THEN CheckFailed
     ELSE /\ calls' = << >>
          /\ quota_allocated' = Erase(quota_allocated, role)
          /\ currentQuota' = Erase(currentQuota, role)
          /\ UNCHANGED <<procVars, registry, phase, catalog, resources_total,
                         resources_offered_or_allocated, quota_guarantee,
                         offer_filters_active, fwVars, lastSuppressCall>>

(* Metrics::removeQuota *)

\* Mutant of removeQuota: unregisters the offered_or_allocated gauges of
\* every role and clears the whole map.
removeQuota_allRoles(role) ==
  /\ registry = "allocator"
  /\ phase = "live"
  /\ Record("removeQuota", role, << >>)
  /\ IF role \notin DOMAIN quota_allocated
     THEN CheckFailed
     ELSE
       LET st == removeAll(Begin, Flatten(Values([r \in DOMAIN quota_allocated |->
                                                    Values(quota_allocated[r])])))
       IN /\ catalog' = st.cat
          /\ calls' = st.log
          /\ quota_allocated' = EmptyMap
          /\ currentQuota' = EmptyMap
          /\ UNCHANGED <<procVars, registry, phase, resources_total, resources_offered_or_allocated,
                         quota_guarantee, offer_filters_active, fwVars, lastSuppressCall>>

removeQuota(role) ==
  /\ registry = "allocator"
  /\ phase = "live"
  /\ Record("removeQuota", role, << >>)
  /\ IF role \notin DOMAIN quota_allocated
     THEN CheckFailed
     ELSE
       LET st == removeAll(Begin, Values(quota_allocated[role]))
       IN /\ catalog' = st.cat
          /\ calls' = st.log
          /\ quota_allocated' = Erase(quota_allocated, role)
          /\ currentQuota' = Erase(currentQuota, role)
          /\ UNCHANGED <<procVars, registry, phase, resources_total, resources_offered_or_allocated,
                         quota_guarantee, offer_filters_active, fwVars, lastSuppressCall>>

(* Metrics::addRole *)

addRole(role) ==
  /\ registry = "allocator"
  /\ phase = "live"
  /\ Record("addRole", role, << >>)
  /\ IF role \in DOMAIN offer_filters_active
     THEN CheckFailed
     ELSE
       LET gauge == PullGauge(OfferFilterName(role), "_offer_filters_active", <<role>>)
           st == add(Begin, gauge)
       IN /\ offer_filters_active' = Put(offer_filters_active, role, gauge)
          /\ catalog' = st.cat
          /\ calls' = st.log
          /\ UNCHANGED <<procVars, registry, phase, resources_total, resources_offered_or_allocated,
                         quota_allocated, quota_guarantee, fwVars,
                         currentQuota, lastSuppressCall>>

\* Mutant of removeRole: erases the entry and forgets to unregister the gauge.
removeRole_keepsRegistration(role) ==
  /\ registry = "allocator"
  /\ phase = "live"
  /\ Record("removeRole", role, << >>)
  /\ IF role \notin DOMAIN offer_filters_active
     THEN CheckFailed
     ELSE /\ offer_filters_active' = Erase(offer_filters_active, role)
          /\ calls' = << >>
          /\ UNCHANGED <<procVars, registry, phase, catalog, resources_total,
                         resources_offered_or_allocated, quota_allocated,
                         quota_guarantee, fwVars, currentQuota, lastSuppressCall>>

(* Metrics::removeRole *)

removeRole(role) ==
  /\ registry = "allocator"
  /\ phase = "live"
  /\ Record("removeRole", role, << >>)
  /\ IF role \notin DOMAIN offer_filters_active
     THEN CheckFailed
     ELSE
       LET gauge == offer_filters_active[role]
           st == remove(Begin, gauge)
       IN /\ offer_filters_active' = Erase(offer_filters_active, role)
          /\ catalog' = st.cat
          /\ calls' = st.log
          /\ UNCHANGED <<procVars, registry, phase, resources_total, resources_offered_or_allocated,
                         quota_allocated, quota_guarantee, fwVars,
                         currentQuota, lastSuppressCall>>

----------------------------------------------------------------------------
(* FrameworkMetrics: names and gauges *)

\* master/metrics.cpp, getFrameworkMetricPrefix: one prefix per framework,
\* ending in a separator.  This process tracks one framework.
getFrameworkMetricPrefix == <<"{fw-prefix}">>

\* master/metrics.cpp, normalizeMetricKey: the key as one safe path segment.
\* A path separator in the key is replaced, every other character is kept;
\* nothing reverses the replacement.
normalizeChar(c) == IF c = "/" THEN "_" ELSE c

normalizeMetricKey(key) == [i \in DOMAIN key |-> normalizeChar(key[i])]

\* A push gauge holds its value; the catalog's copy shares it with the copy in
\* the registry's map, which `owner` locates.
PushGauge(name, owner) ==
  [name |-> name, source |-> [kind |-> "push", owner |-> owner], value |-> 0]

resources_filtered ==
  FixedMetric(getFrameworkMetricPrefix \o <<"allocation/resources_filtered">>)
resources_filtered_decline ==
  FixedMetric(getFrameworkMetricPrefix \o <<"allocation/resources_filtered/decline">>)
resources_filtered_gpu ==
  FixedMetric(getFrameworkMetricPrefix \o <<"allocation/resources_filtered/gpu_resources">>)
resources_filtered_region_aware ==
  FixedMetric(getFrameworkMetricPrefix \o <<"allocation/resources_filtered/region_aware">>)
resources_filtered_reservation_refinement ==
  FixedMetric(getFrameworkMetricPrefix
                \o <<"allocation/resources_filtered/reservation_refinement">>)
resources_filtered_revocable ==
  FixedMetric(getFrameworkMetricPrefix
                \o <<"allocation/resources_filtered/revocable_resources">>)

FrameworkFixed ==
  <<resources_filtered, resources_filtered_decline, resources_filtered_gpu,
    resources_filtered_region_aware, resources_filtered_reservation_refinement,
    resources_filtered_revocable>>

SuppressedName(role) ==
  getFrameworkMetricPrefix \o <<"roles/">> \o normalizeMetricKey(role) \o <<"/suppressed">>

DrfPrefix(role) ==
  getFrameworkMetricPrefix \o <<"allocation/roles/">> \o normalizeMetricKey(role)
    \o <<"/latest_position/">>

(* FrameworkMetrics::DrfPositions::DrfPositions *)
DrfPositions(prefix, role) ==
  [min |-> PushGauge(prefix \o <<"min">>, <<"min", role>>),
   max |-> PushGauge(prefix \o <<"max">>, <<"max", role>>)]

----------------------------------------------------------------------------
(* FrameworkMetrics::reviveRole, suppressRole: the body, on a catalog run   *)
(* and the suppressed map, storing `value`.                                 *)

setSuppressed(acc, role, value) ==
  LET created == role \notin DOMAIN acc.suppressed
      gauge == PushGauge(SuppressedName(role), <<"suppressed", role>>)
      map == IF created THEN Put(acc.suppressed, role, gauge) ELSE acc.suppressed
      st == IF created THEN add(acc.st, map[role]) ELSE acc.st
  IN [st |-> st, suppressed |-> [map EXCEPT ![role].value = value]]

\* Mutant of suppressRoleBody: stores the value reviveRole stores.
suppressRoleBody_storesZero(acc, role) == setSuppressed(acc, role, 0)

reviveRoleBody(acc, role) == setSuppressed(acc, role, 0)

suppressRoleBody(acc, role) == setSuppressed(acc, role, 1)

RECURSIVE reviveAll(_, _)
reviveAll(acc, roles) ==
  IF roles = << >> THEN acc
  ELSE reviveAll(reviveRoleBody(acc, Head(roles)), Tail(roles))

\* protobuf::framework::getRoles: the declared roles, as an ordered set.
RECURSIVE getRoles(_)
getRoles(declared) ==
  IF declared = {} THEN << >>
  ELSE LET r == CHOOSE x \in declared : TRUE
       IN <<r>> \o getRoles(declared \ {r})

(* FrameworkMetrics::FrameworkMetrics *)

FrameworkMetricsConstructed(declared) ==
  reviveAll([st |-> addAll([cat |-> EmptyMap, log |-> << >>], FrameworkFixed),
             suppressed |-> EmptyMap],
            getRoles(declared))

\* Mutant of DestroyFrameworkMetricsRun: unregisters only the min gauge of
\* each DRF position pair.
DestroyFrameworkMetricsRun_skipsMax(st) ==
  LET s1 == removeAll(st, FrameworkFixed)
      s2 == removeAll(s1, Values([role \in DOMAIN roleDrfPositions |->
                                    roleDrfPositions[role].min]))
  IN removeAll(s2, Values(suppressed))

(* FrameworkMetrics::~FrameworkMetrics *)

DestroyFrameworkMetricsRun(st) ==
  LET s1 == removeAll(st, FrameworkFixed)
      s2 == removeAll(s1, Flatten(Values([role \in DOMAIN roleDrfPositions |->
                 <<roleDrfPositions[role].min, roleDrfPositions[role].max>>])))
  IN removeAll(s2, Values(suppressed))

DestroyFrameworkMetrics ==
  /\ registry = "framework"
  /\ phase = "live"
  /\ LET st == DestroyFrameworkMetricsRun(Begin)
     IN /\ catalog' = st.cat
        /\ calls' = st.log
  /\ phase' = "destroyed"
  /\ Record("~FrameworkMetrics", << >>, << >>)
  /\ UNCHANGED <<procVars, registry, allocVars, fwVars, currentQuota, lastSuppressCall>>

\* Mutant of setDrfPositions: the values are stored only when the pair is
\* created; a later call leaves them.
setDrfPositions_keepsFirst(role, minMax) ==
  /\ registry = "framework"
  /\ phase = "live"
  /\ Record("setDrfPositions", role, minMax)
  /\ LET created == role \notin DOMAIN roleDrfPositions
         map == IF created
                THEN Put(roleDrfPositions, role, DrfPositions(DrfPrefix(role), role))
                ELSE roleDrfPositions
         st == IF created THEN add(add(Begin, map[role].min), map[role].max) ELSE Begin
     IN /\ roleDrfPositions' =
             IF created
             THEN [map EXCEPT ![role].min.value = minMax[1], ![role].max.value = minMax[2]]
             ELSE map
        /\ catalog' = st.cat
        /\ calls' = st.log
  /\ UNCHANGED <<procVars, registry, phase, allocVars, suppressed, currentQuota, lastSuppressCall>>

(* FrameworkMetrics::setDrfPositions *)

setDrfPositions(role, minMax) ==
  /\ registry = "framework"
  /\ phase = "live"
  /\ Record("setDrfPositions", role, minMax)
  /\ LET created == role \notin DOMAIN roleDrfPositions
         map == IF created
                THEN Put(roleDrfPositions, role, DrfPositions(DrfPrefix(role), role))
                ELSE roleDrfPositions
         st == IF created THEN add(add(Begin, map[role].min), map[role].max) ELSE Begin
     IN /\ roleDrfPositions' =
             [map EXCEPT ![role].min.value = minMax[1], ![role].max.value = minMax[2]]
        /\ catalog' = st.cat
        /\ calls' = st.log
  /\ UNCHANGED <<procVars, registry, phase, allocVars, suppressed, currentQuota, lastSuppressCall>>

(* FrameworkMetrics::reviveRole *)

reviveRole(role) ==
  /\ registry = "framework"
  /\ phase = "live"
  /\ Record("reviveRole", role, << >>)
  /\ LET r == reviveRoleBody([st |-> Begin, suppressed |-> suppressed], role)
     IN /\ suppressed' = r.suppressed
        /\ catalog' = r.st.cat
        /\ calls' = r.st.log
  /\ lastSuppressCall' = Put(lastSuppressCall, role, "reviveRole")
  /\ UNCHANGED <<procVars, registry, phase, allocVars, roleDrfPositions, currentQuota>>

(* FrameworkMetrics::suppressRole *)

suppressRole(role) ==
  /\ registry = "framework"
  /\ phase = "live"
  /\ Record("suppressRole", role, << >>)
  /\ LET r == suppressRoleBody([st |-> Begin, suppressed |-> suppressed], role)
     IN /\ suppressed' = r.suppressed
        /\ catalog' = r.st.cat
        /\ calls' = r.st.log
  /\ lastSuppressCall' = Put(lastSuppressCall, role, "suppressRole")
  /\ UNCHANGED <<procVars, registry, phase, allocVars, roleDrfPositions, currentQuota>>

\* Mutant of removeSuppressedRole: without the CHECK, a role that has no
\* gauge is accepted and nothing happens.
removeSuppressedRole_unchecked(role) ==
  /\ registry = "framework"
  /\ phase = "live"
  /\ Record("removeSuppressedRole", role, << >>)
  /\ LET st == IF role \in DOMAIN suppressed THEN remove(Begin, suppressed[role]) ELSE Begin
     IN /\ catalog' = st.cat
        /\ calls' = st.log
  /\ suppressed' = Erase(suppressed, role)
  /\ lastSuppressCall' = Erase(lastSuppressCall, role)
  /\ UNCHANGED <<procVars, registry, phase, allocVars, roleDrfPositions, currentQuota>>

\* Mutant of removeSuppressedRole: retiring the role also unregisters and
\* drops its DRF position pair.
removeSuppressedRole_dropsDrf(role) ==
  /\ registry = "framework"
  /\ phase = "live"
  /\ Record("removeSuppressedRole", role, << >>)
  /\ IF role \notin DOMAIN suppressed
     THEN CheckFailed
     ELSE
       LET s1 == remove(Begin, suppressed[role])
           st == IF role \in DOMAIN roleDrfPositions
                 THEN remove(remove(s1, roleDrfPositions[role].min),
                             roleDrfPositions[role].max)
                 ELSE s1
       IN /\ catalog' = st.cat
          /\ calls' = st.log
          /\ suppressed' = Erase(suppressed, role)
          /\ roleDrfPositions' = Erase(roleDrfPositions, role)
          /\ lastSuppressCall' = Erase(lastSuppressCall, role)
          /\ UNCHANGED <<procVars, registry, phase, allocVars, currentQuota>>

(* FrameworkMetrics::removeSuppressedRole *)

removeSuppressedRole(role) ==
  /\ registry = "framework"
  /\ phase = "live"
  /\ Record("removeSuppressedRole", role, << >>)
  /\ IF role \notin DOMAIN suppressed
     THEN CheckFailed
     ELSE
       LET st == remove(Begin, suppressed[role])
       IN /\ catalog' = st.cat
          /\ calls' = st.log
          /\ suppressed' = Erase(suppressed, role)
          /\ lastSuppressCall' = Erase(lastSuppressCall, role)
          /\ UNCHANGED <<procVars, registry, phase, allocVars, roleDrfPositions, currentQuota>>

----------------------------------------------------------------------------
(* Inputs *)

\* Resource: one entry of quota.info.guarantee().  Only a SCALAR carries a
\* scalar value.
Resources ==
  [name : QuotaResourceNames, type : {"SCALAR"}, value : 1..MaxValue]
    \cup [name : QuotaResourceNames, type : ValueTypes \ {"SCALAR"}, value : {0}]

\* Quota guarantees: lists of resources, one entry per resource name (the
\* master validates a quota request before the allocator sees it).
Quotas ==
  { q \in UNION { [1..n -> Resources] : n \in 0..Cardinality(QuotaResourceNames) } :
      \A i, j \in DOMAIN q : i # j => q[i].name # q[j].name }

Positions == (0..MaxPos) \X (0..MaxPos)

----------------------------------------------------------------------------
(* The process *)

InitMetrics ==
  LET c == MetricsConstructed
  IN /\ registry = "allocator"
     /\ catalog = c.cat
     /\ calls = c.log
     /\ resources_total = c.totals
     /\ resources_offered_or_allocated = c.offered
     /\ roleDrfPositions = EmptyMap
     /\ suppressed = EmptyMap
     /\ lastSuppressCall = EmptyMap
     /\ lastOp = Op("Metrics", << >>, << >>)

InitFrameworkMetrics ==
  \E declared \in SUBSET FwRoles :
    LET c == FrameworkMetricsConstructed(declared)
    IN /\ registry = "framework"
       /\ catalog = c.st.cat
       /\ calls = c.st.log
       /\ resources_total = << >>
       /\ resources_offered_or_allocated = << >>
       /\ roleDrfPositions = EmptyMap
       /\ suppressed = c.suppressed
       /\ lastSuppressCall = [r \in declared |-> "reviveRole"]
       /\ lastOp = Op("FrameworkMetrics", << >>, << >>)

\* No read has resolved yet.
NoRead == [status |-> "none", value |-> << >>]

Init ==
  /\ phase = "live"
  /\ mailbox = << >>
  /\ version = 0
  /\ alive = TRUE
  /\ lastRead = NoRead
  /\ quota_allocated = EmptyMap
  /\ quota_guarantee = EmptyMap
  /\ offer_filters_active = EmptyMap
  /\ currentQuota = EmptyMap
  /\ (InitMetrics \/ InitFrameworkMetrics)

Next ==
  \/ \E role \in QuotaRoles, quota \in Quotas : setQuota(role, quota)
  \/ \E role \in QuotaRoles : removeQuota(role)
  \/ \E role \in AllocRoles : addRole(role)
  \/ \E role \in AllocRoles : removeRole(role)
  \/ DestroyMetrics
  \/ \E role \in DrfRoles, minMax \in Positions : setDrfPositions(role, minMax)
  \/ \E role \in FwRoles : reviveRole(role)
  \/ \E role \in FwRoles : suppressRole(role)
  \/ \E role \in FwRoles : removeSuppressedRole(role)
  \/ DestroyFrameworkMetrics

Spec == Init /\ [][Next]_vars

\* The Allocator Metrics Registry alone, with quotas for both roles: the
\* guarantees name at most one resource, a scalar of value 1.
FrameQuotas ==
  { q \in Quotas : Len(q) <= 1 /\ \A i \in DOMAIN q : q[i].type = "SCALAR" /\ q[i].value = 1 }

FrameInit == Init /\ registry = "allocator"

FrameNext ==
  \/ \E role \in AllocRoles, quota \in FrameQuotas : setQuota(role, quota)
  \/ \E role \in AllocRoles : removeQuota(role)
  \/ \E role \in AllocRoles : addRole(role)
  \/ \E role \in AllocRoles : removeRole(role)
  \/ DestroyMetrics

FrameSpec == FrameInit /\ [][FrameNext]_vars

----------------------------------------------------------------------------
(* Reading a pull gauge.  The producer of a pull gauge is                   *)
(* process::defer(allocator, &HierarchicalAllocatorProcess::method, args):  *)
(* a read dispatches the call to the allocator process, which handles the   *)
(* events of its queue one at a time, and the read's future is set when     *)
(* the call has run.  The allocator's state is identified by the number of  *)
(* mutations it has processed; the value of method(args) in a state is the  *)
(* triple of the three.                                                     *)

AllocatorValue(method, args, v) == <<method, args, v>>

\* A dispatched call of a gauge's producer; `at` is the allocator's state
\* when the read dispatched it.
Query(name, source, at) ==
  [kind |-> "query", name |-> name, method |-> source.method, args |-> source.args,
   at |-> at]

Mutation == [kind |-> "mutation"]

Ready(value) == [status |-> "ready", value |-> value]

Failed == [status |-> "failed", value |-> << >>]

RemoveAt(s, i) == SubSeq(s, 1, i - 1) \o SubSeq(s, i + 1, Len(s))

PendingMutations == Cardinality({ i \in DOMAIN mailbox : mailbox[i].kind = "mutation" })

\* The gauges that are read: one of each kind of pull gauge of Metrics.
ReadNames ==
  { event_queue_dispatches.name,
    ResourceTotal("cpus").name,
    ResourceOfferedOrAllocated("cpus").name }
    \cup { QuotaAllocatedName(role, "cpus") : role \in QuotaRoles }
    \cup { OfferFilterName(role) : role \in QuotaRoles }

\* The quota set while the gauges are read.
ReadQuotas == { q \in FrameQuotas : Len(q) = 1 /\ q[1].name = "cpus" }

\* An event that changes the allocator's state is dispatched to it.
Mutate ==
  /\ phase # "aborted"
  /\ alive
  /\ Len(mailbox) < MaxQueue
  /\ version + PendingMutations < MaxVersion
  /\ mailbox' = Append(mailbox, Mutation)
  /\ UNCHANGED <<registry, phase, catalog, allocVars, fwVars, histVars,
                 version, alive, lastRead>>

\* PullGauge::value() of a registered gauge: the deferred call is dispatched.
Read(name) ==
  /\ phase # "aborted"
  /\ alive
  /\ name \in DOMAIN catalog
  /\ catalog[name].kind = "pull"
  /\ Len(mailbox) < MaxQueue
  /\ mailbox' = Append(mailbox, Query(name, catalog[name], version))
  /\ UNCHANGED <<registry, phase, catalog, allocVars, fwVars, histVars,
                 version, alive, lastRead>>

\* A read when the allocator has terminated: the dispatch is dropped and
\* the future is abandoned.
ReadUnreachable(name) ==
  /\ phase # "aborted"
  /\ ~alive
  /\ name \in DOMAIN catalog
  /\ catalog[name].kind = "pull"
  /\ lastRead' = Failed
  /\ UNCHANGED <<registry, phase, catalog, allocVars, fwVars, histVars,
                 mailbox, version, alive>>

\* The allocator handles the event at the head of its queue.
Process ==
  /\ phase # "aborted"
  /\ alive
  /\ mailbox # << >>
  /\ mailbox' = Tail(mailbox)
  /\ LET event == Head(mailbox)
     IN IF event.kind = "mutation"
        THEN /\ version' = version + 1
             /\ UNCHANGED lastRead
        ELSE /\ lastRead' = Ready(AllocatorValue(event.method, event.args, version))
             /\ UNCHANGED version
  /\ UNCHANGED <<registry, phase, catalog, allocVars, fwVars, histVars, alive>>

\* Mutant of ProducerFails: a failing producer takes the process down.
ProducerFails_crashes ==
  /\ phase # "aborted"
  /\ alive
  /\ mailbox # << >>
  /\ Head(mailbox).kind = "query"
  /\ mailbox' = Tail(mailbox)
  /\ lastRead' = Failed
  /\ phase' = "aborted"
  /\ UNCHANGED <<registry, catalog, allocVars, fwVars, histVars, version, alive>>

\* The call at the head of the queue runs and fails: the read's future fails.
ProducerFails ==
  /\ phase # "aborted"
  /\ alive
  /\ mailbox # << >>
  /\ Head(mailbox).kind = "query"
  /\ mailbox' = Tail(mailbox)
  /\ lastRead' = Failed
  /\ UNCHANGED <<registry, phase, catalog, allocVars, fwVars, histVars, version, alive>>

\* The reader gives up on a read the allocator has not handled yet.
Timeout ==
  /\ phase # "aborted"
  /\ \E i \in DOMAIN mailbox :
       /\ mailbox[i].kind = "query"
       /\ mailbox' = RemoveAt(mailbox, i)
  /\ lastRead' = Failed
  /\ UNCHANGED <<registry, phase, catalog, allocVars, fwVars, histVars, version, alive>>

\* The allocator process terminates; the events of its queue are never
\* handled.
Terminate ==
  /\ phase # "aborted"
  /\ alive
  /\ alive' = FALSE
  /\ UNCHANGED <<registry, phase, catalog, allocVars, fwVars, histVars,
                 mailbox, version, lastRead>>

\* An event left in the queue of the terminated allocator is dropped; the
\* future of a dropped call is abandoned.
Discard ==
  /\ phase # "aborted"
  /\ ~alive
  /\ mailbox # << >>
  /\ mailbox' = Tail(mailbox)
  /\ IF Head(mailbox).kind = "query"
     THEN lastRead' = Failed
     ELSE UNCHANGED lastRead
  /\ UNCHANGED <<registry, phase, catalog, allocVars, fwVars, histVars, version, alive>>

\* The Allocator Metrics Registry with its gauges read while the allocator
\* mutates its state, registers the gauges of a role and of a quota, and
\* destroys the registry.  The registry's operations run in the allocator
\* process.
ReadInit == Init /\ registry = "allocator"

ReadNext ==
  \/ alive /\ \E role \in QuotaRoles, quota \in ReadQuotas : setQuota(role, quota)
  \/ alive /\ \E role \in QuotaRoles : addRole(role)
  \/ DestroyMetrics
  \/ Mutate
  \/ \E name \in ReadNames : Read(name)
  \/ \E name \in ReadNames : ReadUnreachable(name)
  \/ Process
  \/ ProducerFails
  \/ Timeout
  \/ Terminate
  \/ Discard

ReadSpec == ReadInit /\ [][ReadNext]_vars

----------------------------------------------------------------------------
(* Reading the catalog *)

Registered == DOMAIN catalog

\* The registered names bound to the allocator query `method`.
RegisteredPull(method) ==
  { n \in Registered : catalog[n].kind = "pull" /\ catalog[n].method = method }

\* The value a read of a registered constant or push gauge returns.
GaugeValue(source) ==
  CASE source.kind = "const" -> source.value
    [] source.kind = "push" /\ source.owner[1] = "suppressed" ->
         suppressed[source.owner[2]].value
    [] source.kind = "push" /\ source.owner[1] = "min" ->
         roleDrfPositions[source.owner[2]].min.value
    [] source.kind = "push" /\ source.owner[1] = "max" ->
         roleDrfPositions[source.owner[2]].max.value

\* The catalog's copy of a push gauge is the copy of a role the registry holds.
PushOwnersLive ==
  \A n \in Registered :
    catalog[n].kind = "push" =>
      catalog[n].owner[2] \in
        (IF catalog[n].owner[1] = "suppressed" THEN DOMAIN suppressed
                                                ELSE DOMAIN roleDrfPositions)

----------------------------------------------------------------------------
(* C1..C10 *)

\* C1: once the Allocator Metrics Registry is destroyed, none of the names
\* it registered (fixed metrics, resource gauges, quota offered_or_allocated
\* and guarantee gauges, offer-filter gauges) is left in the catalog.
C1_AllocatorTeardownLeavesNothing ==
  (registry = "allocator" /\ phase = "destroyed") => Registered = {}

\* C2, on the Allocator Metrics Registry: no operation calls the catalog's
\* register for a name that is registered at that moment.
C2_AllocatorNeverRegistersRegisteredName ==
  registry = "allocator" =>
    \A i \in DOMAIN calls : calls[i].op = "add" => calls[i].ok

C4_GuaranteeRegisteredIffAllocated ==
  \A role \in QuotaRoles, r \in QuotaResourceNames :
    QuotaGuaranteeName(role, r) \in Registered
      <=> QuotaAllocatedName(role, r) \in Registered

\* C5: while the quota set by setQuota(role, q) is in force, a read of the
\* guarantee gauge of (role, r) from the catalog returns q[r], for every
\* resource r of q.
C5_GuaranteeReadsCurrentQuota ==
  (registry = "allocator" /\ phase = "live") =>
    \A role \in DOMAIN currentQuota :
      \A r \in DOMAIN currentQuota[role] :
        /\ QuotaGuaranteeName(role, r) \in Registered
        /\ GaugeValue(catalog[QuotaGuaranteeName(role, r)]) = currentQuota[role][r]

\* C6: removeQuota(role) right after a successful setQuota(role, q) leaves
\* no quota offered_or_allocated gauge of the role registered and the role
\* without an entry in quota_allocated, so that setQuota(role, ...) is
\* legal again.
C6_SetThenRemoveQuotaLeavesNoAllocated ==
  [][ ( /\ phase = "live"
        /\ lastOp.op = "setQuota"
        /\ lastOp'.op = "removeQuota"
        /\ lastOp'.role = lastOp.role )
      => ( /\ phase' = "live"
           /\ lastOp.role \notin DOMAIN quota_allocated'
           /\ \A r \in QuotaResourceNames :
                QuotaAllocatedName(lastOp.role, r) \notin Registered' ) ]_vars

\* C6 witness: removeQuota has just unregistered both offered_or_allocated
\* gauges of a role.
C6_Witness ==
  /\ phase = "live"
  /\ lastOp.op = "removeQuota"
  /\ Len(calls) = 2
  /\ \A i \in DOMAIN calls : calls[i].op = "remove" /\ calls[i].ok
  /\ lastOp.role \notin DOMAIN quota_allocated

\* The operation `op` finds its entry precondition violated in this state.
PreconditionViolated(op) ==
  \/ op.op = "setQuota" /\ op.role \in DOMAIN quota_allocated
  \/ op.op = "removeQuota" /\ op.role \notin DOMAIN quota_allocated
  \/ op.op = "addRole" /\ op.role \in DOMAIN offer_filters_active
  \/ op.op = "removeRole" /\ op.role \notin DOMAIN offer_filters_active
  \/ op.op = "removeSuppressedRole" /\ op.role \notin DOMAIN suppressed

\* C7: an operation called with its precondition violated ends in the
\* fatal state, having issued no catalog call and changed no map.
C7_PreconditionViolationIsFatal ==
  [][ (phase = "live" /\ PreconditionViolated(lastOp'))
      => ( /\ phase' = "aborted"
           /\ calls' = << >>
           /\ UNCHANGED <<catalog, allocVars, fwVars>> ) ]_vars

\* C7 witness: removeSuppressedRole for a role without a gauge has aborted
\* the process while other gauges were registered.
C7_Witness ==
  /\ phase = "aborted"
  /\ lastOp.op = "removeSuppressedRole"
  /\ lastOp.role \notin DOMAIN suppressed
  /\ suppressed # EmptyMap

\* The registered names whose value is the suppression gauge held for role.
SuppressionRegistrations(role) ==
  { n \in Registered :
      catalog[n].kind = "push" /\ catalog[n].owner = <<"suppressed", role>> }

SuppressedValue(call) == IF call = "suppressRole" THEN 1 ELSE 0

\* The suppression gauges as C8 wants them in a state: at most one
\* registration per role, and the gauge of a role holds 1 if the last of
\* reviveRole/suppressRole called for the role was suppressRole, 0 if it was
\* reviveRole, whether read from the registry or through the catalog.
SuppressionGaugesAgree ==
  \A role \in FwRoles :
    /\ Cardinality(SuppressionRegistrations(role)) <= 1
    /\ role \in DOMAIN suppressed =>
         /\ role \in DOMAIN lastSuppressCall
         /\ suppressed[role].value = SuppressedValue(lastSuppressCall[role])
         /\ \A n \in SuppressionRegistrations(role) :
              /\ n = suppressed[role].name
              /\ GaugeValue(catalog[n]) = SuppressedValue(lastSuppressCall[role])

\* C8: in every state a role has at most one suppression gauge registered
\* and the gauge holds 1 if the most recent reviveRole/suppressRole call for
\* the role was suppressRole and 0 if it was reviveRole; repeating that call
\* changes neither the registrations nor the value.
C8_SuppressionGauge ==
  /\ SuppressionGaugesAgree
  /\ [][ /\ SuppressionGaugesAgree'
         /\ ( /\ phase = "live"
              /\ lastOp'.op \in {"reviveRole", "suppressRole"}
              /\ lastOp'.role \in DOMAIN lastSuppressCall
              /\ lastSuppressCall[lastOp'.role] = lastOp'.op )
            => ( /\ calls' = << >>
                 /\ UNCHANGED <<catalog, suppressed>> ) ]_vars

\* C8 witness: suppressRole found the gauge of a role that had been revived:
\* still one registration, no catalog call, and the gauge now holds 1.
C8_Witness ==
  /\ phase = "live"
  /\ lastOp = Op("suppressRole", <<"a">>, << >>)
  /\ calls = << >>
  /\ <<"a">> \in DOMAIN suppressed
  /\ suppressed[<<"a">>].value = 1
  /\ SuppressionRegistrations(<<"a">>) = { SuppressedName(<<"a">>) }

\* C9: once a Framework Metrics Registry is destroyed, none of the names it
\* registered is left in the catalog.
C9_FrameworkTeardownLeavesNothing ==
  (registry = "framework" /\ phase = "destroyed") => Registered = {}

\* C9 witness: the destructor ran with a DRF position pair and a suppression
\* gauge alive, and unregistered the six counters and those three gauges.
C9_Witness ==
  /\ registry = "framework"
  /\ phase = "destroyed"
  /\ roleDrfPositions # EmptyMap
  /\ suppressed # EmptyMap
  /\ Cardinality({ i \in DOMAIN calls : calls[i].op = "remove" /\ calls[i].ok }) >= 9

\* C10: every unregister call a registry issues, destruction included,
\* names a metric that is registered at that moment.
C10_UnregisterOnlyRegisteredNames ==
  \A i \in DOMAIN calls : calls[i].op = "remove" => calls[i].ok

----------------------------------------------------------------------------
(* C11..C19 *)

\* The registered names whose value is a suppression gauge.
SuppressionNames ==
  { n \in Registered : catalog[n].kind = "push" /\ catalog[n].owner[1] = "suppressed" }

\* The registered names whose value is a gauge of a DRF position pair.
DrfNames ==
  { n \in Registered : catalog[n].kind = "push" /\ catalog[n].owner[1] \in {"min", "max"} }

\* The registered names whose value is a gauge of the DRF pair held for role.
DrfRegistrations(role) ==
  { n \in DrfNames : catalog[n].owner[2] = role }

\* C11: right after a Framework Metrics Registry for declared roles R is
\* constructed, the catalog holds exactly the six fixed counters and |R|
\* suppression gauges, one per declared role and each 0, and no DRF gauge.
C11_FrameworkConstruction ==
  lastOp.op = "FrameworkMetrics" =>
    /\ { n \in Registered : catalog[n].kind = "fixed" } =
         { FrameworkFixed[i].name : i \in DOMAIN FrameworkFixed }
    /\ Cardinality({ n \in Registered : catalog[n].kind = "fixed" }) = 6
    /\ Cardinality(SuppressionNames) = Cardinality(DOMAIN suppressed)
    /\ \A role \in DOMAIN suppressed :
         /\ SuppressionRegistrations(role) = { SuppressedName(role) }
         /\ GaugeValue(catalog[SuppressedName(role)]) = 0
    /\ DrfNames = {}
    /\ Registered = { n \in Registered : catalog[n].kind = "fixed" } \cup SuppressionNames

\* C12: the constructed Allocator Metrics Registry has registered exactly 11
\* names; a setQuota on a role without a quota whose guarantee lists n
\* resource names registers exactly 2n names (n guarantee, n
\* offered_or_allocated); a removeQuota unregisters exactly the
\* offered_or_allocated names of the role's quota.
C12_AllocatorRegistrationCounts ==
  (registry = "allocator" /\ phase = "live") =>
    /\ lastOp.op = "Metrics" =>
         /\ Cardinality(Registered) = 11
         /\ Len(calls) = 11
    /\ lastOp.op = "setQuota" =>
         /\ Len(calls) = 2 * Len(lastOp.arg)
         /\ \A i \in DOMAIN calls : calls[i].op = "add" /\ calls[i].ok
         /\ { calls[i].name : i \in DOMAIN calls } =
              UNION { { QuotaGuaranteeName(lastOp.role, lastOp.arg[j].name),
                        QuotaAllocatedName(lastOp.role, lastOp.arg[j].name) } :
                      j \in DOMAIN lastOp.arg }
    /\ lastOp.op = "removeQuota" =>
         /\ \A i \in DOMAIN calls : calls[i].op = "remove" /\ calls[i].ok
         /\ \E names \in SUBSET QuotaResourceNames :
              /\ Len(calls) = Cardinality(names)
              /\ { calls[i].name : i \in DOMAIN calls } =
                   { QuotaAllocatedName(lastOp.role, r) : r \in names }

\* C14: while the registry exists, every gauge it holds for a role has a
\* catalog registration of its own, also when another role normalizes to
\* the same path segment (the duplicate is reported, never merged).
C14_EveryHeldGaugeIsRegistered ==
  (registry = "framework" /\ phase # "destroyed") =>
    /\ \A role \in DOMAIN suppressed : SuppressionRegistrations(role) # {}
    /\ \A role \in DOMAIN roleDrfPositions : Cardinality(DrfRegistrations(role)) = 2

C18_DrfPairStaysRegistered ==
  [][ /\ phase' # "destroyed" =>
           \A n \in DrfNames : n \in DrfNames' /\ catalog'[n] = catalog[n]
      /\ lastOp'.op \in {"reviveRole", "suppressRole", "removeSuppressedRole"} =>
           roleDrfPositions' = roleDrfPositions ]_vars

\* C18 witness: removeSuppressedRole retired a role whose DRF position pair
\* is registered; the pair is still registered.
C18_Witness ==
  /\ phase = "live"
  /\ lastOp = Op("removeSuppressedRole", <<"a", "/", "b">>, << >>)
  /\ <<"a", "/", "b">> \notin DOMAIN suppressed
  /\ <<"a", "/", "b">> \in DOMAIN roleDrfPositions
  /\ Cardinality(DrfRegistrations(<<"a", "/", "b">>)) = 2

\* C19: a role has an entry in quota_allocated exactly between a setQuota
\* for it and the next removeQuota; with an empty guarantee setQuota issues
\* no catalog call and still records the role; while that quota is in force
\* a setQuota for the role is fatal and removeQuota succeeds, issuing no
\* catalog call.
C19_EmptyQuotaIsAQuota ==
  /\ DOMAIN quota_allocated = DOMAIN currentQuota
  /\ [][ /\ DOMAIN quota_allocated' = DOMAIN currentQuota'
         /\ ( /\ phase = "live"
              /\ lastOp'.op = "setQuota"
              /\ lastOp'.arg = << >>
              /\ lastOp'.role \notin DOMAIN quota_allocated )
            => ( /\ phase' = "live"
                 /\ calls' = << >>
                 /\ catalog' = catalog
                 /\ lastOp'.role \in DOMAIN quota_allocated'
                 /\ quota_allocated'[lastOp'.role] = EmptyMap )
         /\ ( /\ phase = "live"
              /\ lastOp'.role \in DOMAIN currentQuota
              /\ currentQuota[lastOp'.role] = EmptyMap )
            => ( /\ lastOp'.op = "setQuota" => phase' = "aborted"
                 /\ lastOp'.op = "removeQuota" =>
                      /\ phase' = "live"
                      /\ calls' = << >>
                      /\ catalog' = catalog
                      /\ lastOp'.role \notin DOMAIN quota_allocated' ) ]_vars

\* C19 witness: removeQuota succeeded for a role whose quota had an empty
\* guarantee: nothing was unregistered.
C19_Witness ==
  /\ phase = "live"
  /\ lastOp.op = "removeQuota"
  /\ calls = << >>
  /\ lastOp.role \notin DOMAIN quota_allocated

\* The names of the three key spaces of the Allocator Metrics Registry.
OfferFilterNames(role) == { OfferFilterName(role) }

QuotaNames(role) ==
  UNION { { QuotaGuaranteeName(role, r), QuotaAllocatedName(role, r) } :
          r \in QuotaResourceNames }

\* The names whose registration, or the gauge registered under them, differs
\* between the two states of a step.
ChangedNames ==
  { n \in Registered \cup Registered' :
      \/ (n \in Registered) # (n \in Registered')
      \/ n \in Registered /\ n \in Registered' /\ catalog'[n] # catalog[n] }

\* The entries of a map that differ between the two states of a step.
ChangedKeys(m1, m2) ==
  { k \in DOMAIN m1 \cup DOMAIN m2 :
      \/ (k \in DOMAIN m1) # (k \in DOMAIN m2)
      \/ k \in DOMAIN m1 /\ k \in DOMAIN m2 /\ m1[k] # m2[k] }

\* C17: addRole(r)/removeRole(r) change only the offer-filter registration
\* of r; setQuota(r, q)/removeQuota(r) change only quota registrations of r;
\* every operation but the destruction leaves the fixed metrics and the
\* resource-kind gauges as they are; no operation changes the registrations
\* or the map entries of a role other than its argument.
C17_KeySpacesAreIndependent ==
  [][ (phase = "live" /\ lastOp'.op # "~Metrics") =>
        LET role == lastOp'.role IN
        /\ resources_total' = resources_total
        /\ resources_offered_or_allocated' = resources_offered_or_allocated
        /\ \A i \in DOMAIN MetricsFixed : MetricsFixed[i].name \notin ChangedNames
        /\ \A i \in DOMAIN resources :
             /\ resources_total[i].name \notin ChangedNames
             /\ resources_offered_or_allocated[i].name \notin ChangedNames
        /\ lastOp'.op \in {"addRole", "removeRole"} =>
             /\ ChangedNames \subseteq OfferFilterNames(role)
             /\ ChangedKeys(offer_filters_active, offer_filters_active') \subseteq {role}
             /\ quota_allocated' = quota_allocated
             /\ quota_guarantee' = quota_guarantee
        /\ lastOp'.op \in {"setQuota", "removeQuota"} =>
             /\ ChangedNames \subseteq QuotaNames(role)
             /\ ChangedKeys(quota_allocated, quota_allocated') \subseteq {role}
             /\ ChangedKeys(quota_guarantee, quota_guarantee') \subseteq {role}
             /\ offer_filters_active' = offer_filters_active ]_vars

\* C17 witness: removeQuota of role "a" while role "a/b" has a quota and an
\* offer-filter gauge: the registrations of "a/b" are in place.
C17_Witness ==
  /\ phase = "live"
  /\ lastOp = Op("removeQuota", <<"a">>, << >>)
  /\ calls # << >>
  /\ <<"a", "/", "b">> \in DOMAIN quota_allocated
  /\ QuotaAllocatedName(<<"a", "/", "b">>, "cpus") \in Registered
  /\ OfferFilterName(<<"a", "/", "b">>) \in Registered

\* The allocator query a pull gauge of the given name stands for: the
\* name is taken apart into its literal pieces, its role and its resource.
ExpectedQuery(name) ==
  LET n == Len(name) IN
  CASE name \in { <<"allocator/mesos/event_queue_dispatches">>,
                  <<"allocator/event_queue_dispatches">> } ->
         <<"_event_queue_dispatches", << >>>>
    [] n = 3 /\ name[1] = "allocator/mesos/resources/" /\ name[3] = "/total" ->
         <<"_resources_total", <<name[2]>>>>
    [] n = 3 /\ name[1] = "allocator/mesos/resources/"
             /\ name[3] = "/offered_or_allocated" ->
         <<"_resources_offered_or_allocated", <<name[2]>>>>
    [] n > 5 /\ name[1] = "allocator/mesos/quota" /\ name[2] = "/roles/"
             /\ name[n - 2] = "/resources/" /\ name[n] = "/offered_or_allocated" ->
         <<"_quota_allocated", <<SubSeq(name, 3, n - 3), name[n - 1]>>>>
    [] n > 2 /\ name[1] = "allocator/mesos/offer_filters/roles/" /\ name[n] = "/active" ->
         <<"_offer_filters_active", <<SubSeq(name, 2, n - 1)>>>>
    [] OTHER -> <<"none", << >>>>

\* Every registered pull gauge holds no value, only the allocator query of
\* its name; every dispatched read carries the query of its gauge and a
\* dispatch state the allocator has reached.
PullGaugesAreQueries ==
  /\ \A n \in Registered :
       catalog[n].kind = "pull" =>
         /\ DOMAIN catalog[n] = {"kind", "method", "args"}
         /\ ExpectedQuery(n) = <<catalog[n].method, catalog[n].args>>
  /\ \A i \in DOMAIN mailbox :
       mailbox[i].kind = "query" =>
         /\ mailbox[i].at <= version
         /\ ExpectedQuery(mailbox[i].name) = <<mailbox[i].method, mailbox[i].args>>

\* C13: in every state after a step, the registered pull gauges and the
\* queued requests are queries as above; a read of a pull gauge bound to
\* the allocator puts a request on the allocator's queue and resolves
\* nothing by itself; a read resolves to a value only when the allocator
\* handles the request, and the value is the value of the gauge's query in
\* the one state the allocator is in at that point, a state at or after
\* the dispatch, whatever mutations and reads are interleaved.
C13_PullReadIsASnapshot ==
  [][ /\ PullGaugesAreQueries'
      /\ Len(mailbox') > Len(mailbox) =>
           /\ lastRead' = lastRead
           /\ version' = version
           /\ mailbox' = Append(mailbox, mailbox'[Len(mailbox')])
           /\ mailbox'[Len(mailbox')].kind = "query" =>
                /\ mailbox'[Len(mailbox')].at = version
                /\ mailbox'[Len(mailbox')].name \in Registered
      /\ (lastRead' # lastRead /\ lastRead'.status = "ready") =>
           /\ mailbox # << >>
           /\ Head(mailbox).kind = "query"
           /\ mailbox' = Tail(mailbox)
      /\ ( /\ mailbox # << >>
           /\ Head(mailbox).kind = "query"
           /\ mailbox' = Tail(mailbox)
           /\ lastRead'.status = "ready" ) =>
           /\ lastRead'.value = AllocatorValue(ExpectedQuery(Head(mailbox).name)[1],
                                                ExpectedQuery(Head(mailbox).name)[2],
                                                version)
           /\ Head(mailbox).at <= version
           /\ version' = version ]_vars

\* C13 witness: a read of the quota offered_or_allocated gauge resolved to
\* the allocator's value after one mutation, while another read is queued.
C13_Witness ==
  /\ phase = "live"
  /\ \E role \in QuotaRoles :
       lastRead = Ready(AllocatorValue("_quota_allocated", <<role, "cpus">>, 1))
  /\ mailbox # << >>
  /\ mailbox[1].kind = "query"

\* A step in which a read resolves as failed.
ReadFailed ==
  /\ lastRead'.status = "failed"
  /\ \/ lastRead' # lastRead
     \/ \E i \in DOMAIN mailbox :
          mailbox[i].kind = "query" /\ mailbox' = RemoveAt(mailbox, i)

\* C16: a pull-gauge read that fails (its producer fails, it times out, or
\* the allocator has terminated) fails alone: the process is not aborted,
\* the registry's maps and the catalog are unchanged, and the other queued
\* reads stay queued.
C16_FailedReadIsLocal ==
  [][ ReadFailed =>
        /\ phase' = phase
        /\ phase' # "aborted"
        /\ registry' = registry
        /\ catalog' = catalog
        /\ allocVars' = allocVars
        /\ fwVars' = fwVars
        /\ version' = version
        /\ alive' = alive
        /\ \/ mailbox' = mailbox
           \/ \E i \in DOMAIN mailbox : mailbox' = RemoveAt(mailbox, i) ]_vars

\* C16 witness: a read failed on the terminated allocator; the registry
\* still holds its offer-filter gauge and the process is live.
C16_Witness ==
  /\ phase = "live"
  /\ ~alive
  /\ lastRead = Failed
  /\ offer_filters_active # EmptyMap
  /\ \A role \in DOMAIN offer_filters_active : OfferFilterName(role) \in Registered

====
